---- MODULE Spec2Model ----
(***************************************************************************)
(* A model of gato's GitHub API client (gato/github/api.py, class Api).    *)
(*                                                                         *)
(* The state is one client object (or none), the call in progress or last  *)
(* finished, the requests that call has issued and the responses it got,   *)
(* its local variables while it is inside a loop, its return value or the  *)
(* error it raised, and the working directory it writes log archives to.   *)
(* The GitHub server is the environment: every response is drawn from a    *)
(* small set when the request is made.                                     *)
(*                                                                         *)
(* Python values are tagged records ([kind |-> "int", val |-> 0] ...), so  *)
(* that False, 0, None and [] stay different values, as they are for a     *)
(* caller that tests the sentinel.  Text is a sequence of tokens: a token  *)
(* is either one of the literals the code searches for or a run of other   *)
(* characters.  Formatted strings (f"...") are the sequence of their parts.*)
(*                                                                         *)
(* A response with an operation's success status carries a body of the     *)
(* shape the GitHub API documents for it (a log download is a readable zip *)
(* archive of text files); the values of its fields are free.  A failure   *)
(* response carries a GitHub error object, and, where the code reads the   *)
(* failure body, possibly an object without "message".  Transport errors   *)
(* (no response at all) are outside the model.                             *)
(***************************************************************************)
EXTENDS Integers, Sequences, FiniteSets, TLC

VARIABLES self, call, pc, locals, reqs, resps, ret, err, fs

vars == <<self, call, pc, locals, reqs, resps, ret, err, fs>>

(***************************************************************************)
(* Bounds of the model.                                                    *)
(***************************************************************************)
\* check_org_repos requests at most this many pages before the model stops it
MaxPages == 3
\* the run listing of retrieve_run_logs holds at most this many runs
MaxRuns == 3

(***************************************************************************)
(* Python values.                                                          *)
(***************************************************************************)
None == [kind |-> "None"]
PyBool(b) == [kind |-> "bool", val |-> b]
PyInt(n) == [kind |-> "int", val |-> n]
PyStr(s) == [kind |-> "str", val |-> s]
PyList(s) == [kind |-> "list", val |-> s]
PyDict(d) == [kind |-> "dict", val |-> d]

\* truth value of an Optional[str] argument: None and "" are falsy
Truthy(v) == v.kind = "str" /\ v.val # ""

\* dict.get(key, default)
Get(d, key, default) == IF key \in DOMAIN d THEN d[key] ELSE default

\* the empty dict
EmptyDict == [k \in {} |-> None]

(***************************************************************************)
(* Class constants.                                                        *)
(***************************************************************************)
GITHUB_URL == "https://api.github.com"
PER_PAGE == 100
REPO_TYPES == {"all", "public", "private", "forks", "sources", "member", "internal"}
SET_UP_JOB == "Set up job"
RUNNER_NAME == "Runner name"
MACHINE_NAME == "Machine name"
\* the text between the marker and the captured name in both patterns: ": '"
RE_OPEN == ": '"
RE_CLOSE == "'"
\* tokens that stand for runs of characters of the class [\w+-]
WordToks == {"gato", "host", "vm", "b", "-", "1"}

(***************************************************************************)
(* Api.__init__                                                            *)
(***************************************************************************)
HttpProxies(http_proxy) ==
    [http |-> <<"http://", http_proxy.val>>, https |-> <<"http://", http_proxy.val>>]

SocksProxies(socks_proxy) ==
    [http |-> <<"socks5://", socks_proxy.val>>, https |-> <<"socks5://", socks_proxy.val>>]

Headers(pat, version) ==
    ("Accept" :> "application/vnd.github+json")
        @@ ("Authorization" :> <<"Bearer ", pat>>)
        @@ ("X-GitHub-Api-Version" :> version)

\* the two proxy kinds may not be used together
InitRaises(http_proxy, socks_proxy) == Truthy(http_proxy) /\ Truthy(socks_proxy)

\* NewApi with TLS verification left on behind an HTTP proxy
NewApi_KeepsVerify(pat, version, http_proxy, socks_proxy) ==
    [pat |-> pat,
     headers |-> Headers(pat, version),
     verify_ssl |-> TRUE,
     proxies |-> IF Truthy(http_proxy) THEN HttpProxies(http_proxy)
                 ELSE IF Truthy(socks_proxy) THEN SocksProxies(socks_proxy)
                 ELSE None]

\* the object __init__ leaves behind when it does not raise
NewApi(pat, version, http_proxy, socks_proxy) ==
    [pat |-> pat,
     headers |-> Headers(pat, version),
     verify_ssl |-> ~Truthy(http_proxy),
     proxies |-> IF Truthy(http_proxy) THEN HttpProxies(http_proxy)
                 ELSE IF Truthy(socks_proxy) THEN SocksProxies(socks_proxy)
                 ELSE None]

(***************************************************************************)
(* Request primitives: call_get, call_post, call_delete.  Each builds the  *)
(* request the transport sends; the response is the environment's choice.  *)
(***************************************************************************)
Request(verb, url, params, json) ==
    [verb |-> verb,
     url |-> <<GITHUB_URL>> \o url,
     headers |-> self.headers,
     proxies |-> self.proxies,
     verify |-> self.verify_ssl,
     params |-> params,
     json |-> json]

call_get(url, params) == Request("GET", url, params, None)

\* call_post leaving the proxy map out of the request
call_post_NoProxies(url, params) ==
    [Request("POST", url, None, params) EXCEPT !.proxies = None]

call_post(url, params) == Request("POST", url, None, params)

call_delete(url, params) == Request("DELETE", url, None, params)

(***************************************************************************)
(* The environment: arguments and server responses.                        *)
(***************************************************************************)
Pats == {"ghp_tok"}
Versions == {"2022-11-28"}
ProxyArgs == {None, PyStr(""), PyStr("127.0.0.1:8080")}
Repos == {"org/repo"}
Orgs == {"org"}
WorkflowIds == {11, 12}
RunIdArgs == {11}
TypeArgs == {"all", "internal", "bogus"}
Statuses == {200, 201, 202, 204, 403, 404, 500}
\* the body of a GitHub error response
ErrorBody == [message |-> "error"]
\* bodies of failure responses where the code reads them: a GitHub error object,
\* or an object without "message" (as an intermediary may send)
ErrorBodies == {ErrorBody, EmptyDict}

\* responses to a request whose success status is ok, whose successful bodies
\* are okBodies and whose failure bodies are errBodies
ResponsesWith(ok, okBodies, errBodies) ==
    {[status |-> ok, body |-> b] : b \in okBodies}
        \cup {[status |-> s, body |-> b] : s \in Statuses \ {ok}, b \in errBodies}

\* the same, for the operations that never read a failure body
Responses(ok, okBodies) == ResponsesWith(ok, okBodies, {ErrorBody})

(***************************************************************************)
(* Bookkeeping shared by the operations.                                   *)
(***************************************************************************)
NoLocals == [kind |-> "None"]
NoError == "none"

\* a call may start: a client exists and no call is inside a loop
Ready == pc = "idle" /\ self # None

\* the call returns value r (or raises e) having issued rq and received rs
Finish(op, args, rq, rs, r, e) ==
    /\ call' = [op |-> op, args |-> args]
    /\ reqs' = rq
    /\ resps' = rs
    /\ ret' = r
    /\ err' = e
    /\ pc' = "idle"
    /\ locals' = NoLocals

Init ==
    /\ self = None
    /\ call = [op |-> "none", args |-> <<>>]
    /\ pc = "idle"
    /\ locals = NoLocals
    /\ reqs = <<>>
    /\ resps = <<>>
    /\ ret = None
    /\ err = NoError
    /\ fs = (<<11, ".zip">> :> "PK-old")

\* Api(pat, version, http_proxy, socks_proxy)
Api_init ==
    /\ pc = "idle"
    /\ \E pat \in Pats, version \in Versions, http_proxy \in ProxyArgs, socks_proxy \in ProxyArgs :
          /\ call' = [op |-> "__init__",
                      args |-> [pat |-> pat, version |-> version,
                                http_proxy |-> http_proxy, socks_proxy |-> socks_proxy]]
          /\ IF InitRaises(http_proxy, socks_proxy)
             THEN self' = None /\ err' = "ValueError"
             ELSE self' = NewApi(pat, version, http_proxy, socks_proxy) /\ err' = NoError
    /\ ret' = None
    /\ reqs' = <<>>
    /\ resps' = <<>>
    /\ UNCHANGED <<pc, locals, fs>>

(***************************************************************************)
(* Operations that issue one request.  <op>_ret is the value the method    *)
(* returns for a response; the action issues the request and finishes.     *)
(***************************************************************************)
delete_repository_ret(result) ==
    IF result.status = 204 THEN PyBool(TRUE) ELSE PyBool(FALSE)

delete_repository ==
    /\ Ready
    /\ \E repo_name \in Repos, result \in Responses(204, {EmptyDict}) :
          Finish("delete_repository", [repo_name |-> repo_name],
                 <<call_delete(<<"/repos/", repo_name>>, None)>>, <<result>>,
                 delete_repository_ret(result), NoError)
    /\ UNCHANGED <<self, fs>>

fork_repository_ret(result) ==
    IF result.status = 202 THEN PyStr(result.body["full_name"])
    ELSE IF result.status = 403 THEN PyBool(FALSE)
    ELSE IF result.status = 404 THEN PyBool(FALSE)
    ELSE PyBool(FALSE)

fork_repository ==
    /\ Ready
    /\ \E repo_name \in Repos, result \in Responses(202, {[full_name |-> "me/repo"]}) :
          Finish("fork_repository", [repo_name |-> repo_name],
                 <<call_post(<<"/repos/", repo_name, "/forks">>,
                             PyDict([default_branch_only |-> TRUE]))>>,
                 <<result>>, fork_repository_ret(result), NoError)
    /\ UNCHANGED <<self, fs>>

PR_BODY == "This is a test pull request greated for CI/CD vulnerability testing purposes."

pr_params(source_user, source_branch, target_branch, pr_title) ==
    [title |-> pr_title,
     head |-> <<source_user, ":", source_branch>>,
     base |-> <<target_branch>>,
     body |-> PR_BODY,
     maintainer_can_modify |-> FALSE,
     draft |-> TRUE]

create_fork_pr_ret(result) ==
    IF result.status = 201 THEN PyStr(result.body["html_url"]) ELSE None

create_fork_pr ==
    /\ Ready
    /\ \E target_repo \in Repos, result \in Responses(201, {[html_url |-> "https://github.com/org/repo/pull/1"]}) :
          Finish("create_fork_pr",
                 [target_repo |-> target_repo, source_user |-> "me", source_branch |-> "dev",
                  target_branch |-> "main", pr_title |-> "Test"],
                 <<call_post(<<"/repos/", target_repo, "/pulls">>,
                             PyDict(pr_params("me", "dev", "main", "Test")))>>,
                 <<result>>, create_fork_pr_ret(result), NoError)
    /\ UNCHANGED <<self, fs>>

\* [org['login'] for org in organizations]
Logins(organizations) == [i \in 1..Len(organizations) |-> organizations[i]["login"]]

check_organizations_ret(result) ==
    IF result.status = 200 THEN PyList(Logins(result.body))
    ELSE IF result.status = 403 THEN PyList(<<>>)
    ELSE None

check_organizations ==
    /\ Ready
    /\ \E result \in Responses(200, {<<>>, <<[login |-> "org"], [login |-> "other"]>>}) :
          Finish("check_organizations", <<>>, <<call_get(<<"/user/orgs">>, None)>>,
                 <<result>>, check_organizations_ret(result), NoError)
    /\ UNCHANGED <<self, fs>>

get_repository_ret(result) ==
    IF result.status = 200 THEN PyDict(result.body) ELSE None

get_repository ==
    /\ Ready
    /\ \E repository \in Repos, result \in Responses(200, {[full_name |-> "org/repo"]}) :
          Finish("get_repository", [repository |-> repository],
                 <<call_get(<<"/repos/", repository>>, None)>>,
                 <<result>>, get_repository_ret(result), NoError)
    /\ UNCHANGED <<self, fs>>

get_organization_details_ret(result) ==
    IF result.status = 200 THEN PyDict(result.body)
    ELSE IF result.status = 404 THEN None
    ELSE None

get_organization_details ==
    /\ Ready
    /\ \E org \in Orgs, result \in Responses(200, {[login |-> "org"]}) :
          Finish("get_organization_details", [org |-> org],
                 <<call_get(<<"/orgs/", org>>, None)>>,
                 <<result>>, get_organization_details_ret(result), NoError)
    /\ UNCHANGED <<self, fs>>

check_org_runners_ret(result) ==
    IF result.status = 200
    THEN IF result.body["total_count"] > 0 THEN PyDict(result.body) ELSE None
    ELSE None

check_org_runners ==
    /\ Ready
    /\ \E org \in Orgs,
          result \in Responses(200, {[total_count |-> 0, runners |-> <<>>],
                                     [total_count |-> 1, runners |-> <<[name |-> "gato"]>>]}) :
          Finish("check_org_runners", [org |-> org],
                 <<call_get(<<"/orgs/", org, "/actions/runners">>, None)>>,
                 <<result>>, check_org_runners_ret(result), NoError)
    /\ UNCHANGED <<self, fs>>

get_repo_branch_ret(res) ==
    IF res.status = 200 THEN PyInt(1)
    ELSE IF res.status = 404 THEN PyInt(0)
    ELSE PyInt(-1)

get_repo_branch ==
    /\ Ready
    /\ \E repo \in Repos, res \in Responses(200, {[name |-> "main"]}) :
          Finish("get_repo_branch", [repo |-> repo, branch |-> "main"],
                 <<call_get(<<"/repos/", repo, "/branches/", "main">>, None)>>,
                 <<res>>, get_repo_branch_ret(res), NoError)
    /\ UNCHANGED <<self, fs>>

get_repo_runners_ret(runners) ==
    IF runners.status = 200 THEN PyList(runners.body["runners"]) ELSE None

get_repo_runners ==
    /\ Ready
    /\ \E full_name \in Repos,
          runners \in Responses(200, {[total_count |-> 0, runners |-> <<>>],
                                      [total_count |-> 1, runners |-> <<[name |-> "gato"]>>]}) :
          Finish("get_repo_runners", [full_name |-> full_name],
                 <<call_get(<<"/repos/", full_name, "/actions/runners">>, None)>>,
                 <<runners>>, get_repo_runners_ret(runners), NoError)
    /\ UNCHANGED <<self, fs>>

parse_workflow_runs_ret(runs) ==
    IF runs.status = 200 THEN PyInt(runs.body["total_count"]) ELSE None

\* run listings: the first n runs of the repository, n <= MaxRuns
Run(i) == [id |-> 10 + i, run_attempt |-> 1 + (i % 2)]
RunListing(n) == [total_count |-> n, workflow_runs |-> [i \in 1..n |-> Run(i)]]
RunListings == {RunListing(n) : n \in 0..MaxRuns}

parse_workflow_runs ==
    /\ Ready
    /\ \E repo_name \in Repos, runs \in Responses(200, RunListings) :
          Finish("parse_workflow_runs", [repo_name |-> repo_name],
                 <<call_get(<<"/repos/", repo_name, "/actions/runs">>, None)>>,
                 <<runs>>, parse_workflow_runs_ret(runs), NoError)
    /\ UNCHANGED <<self, fs>>

get_recent_workflow_ret(req) ==
    IF req.status # 200 THEN PyInt(-1)
    ELSE IF req.body["total_count"] = 0 THEN PyInt(0)
    ELSE PyInt(req.body["workflow_runs"][1]["id"])

get_recent_workflow ==
    /\ Ready
    /\ \E repo_name \in Repos, req \in Responses(200, RunListings) :
          Finish("get_recent_workflow", [repo_name |-> repo_name, sha |-> "abc123"],
                 <<call_get(<<"/repos/", repo_name, "/actions/runs?head_sha=", "abc123">>, None)>>,
                 <<req>>, get_recent_workflow_ret(req), NoError)
    /\ UNCHANGED <<self, fs>>

delete_workflow_run_ret(req) == PyBool(req.status = 204)

delete_workflow_run ==
    /\ Ready
    /\ \E repo_name \in Repos, workflow_id \in RunIdArgs, req \in Responses(204, {EmptyDict}) :
          Finish("delete_workflow_run", [repo_name |-> repo_name, workflow_id |-> workflow_id],
                 <<call_delete(<<"/repos/", repo_name, "/actions/runs/", workflow_id>>, None)>>,
                 <<req>>, delete_workflow_run_ret(req), NoError)
    /\ UNCHANGED <<self, fs>>

(***************************************************************************)
(* validate_sso: the organization's repo listing, then the repository      *)
(* lookup.  Both log lines read ['message'] of the response body, which    *)
(* raises KeyError when the body has no such key.                          *)
(***************************************************************************)
\* <<value returned, error raised, number of requests issued>>
validate_sso_outcome(org_repos, result) ==
    IF org_repos.status # 200
    THEN IF "message" \in DOMAIN org_repos.body
         THEN <<PyBool(FALSE), NoError, 1>>
         ELSE <<None, "KeyError", 1>>
    ELSE IF result.status = 403
         THEN IF "message" \in DOMAIN result.body
              THEN <<PyBool(FALSE), NoError, 2>>
              ELSE <<None, "KeyError", 2>>
         ELSE <<PyBool(TRUE), NoError, 2>>

validate_sso ==
    /\ Ready
    /\ \E org \in Orgs, repository \in Repos,
          org_repos \in ResponsesWith(200, {<<[full_name |-> "org/repo"]>>}, ErrorBodies),
          result \in ResponsesWith(200, {[full_name |-> "org/repo"]}, ErrorBodies) :
          \* the lookup's response exists only if the lookup is issued
          /\ org_repos.status # 200 => result = [status |-> 200, body |-> [full_name |-> "org/repo"]]
          /\ LET out == validate_sso_outcome(org_repos, result)
                 rq == <<call_get(<<"/orgs/", org, "/repos">>, None),
                         call_get(<<"/repos/", repository>>, None)>>
                 rs == <<org_repos, result>>
             IN  Finish("validate_sso", [org |-> org, repository |-> repository],
                        SubSeq(rq, 1, out[3]), SubSeq(rs, 1, out[3]), out[1], out[2])
    /\ UNCHANGED <<self, fs>>

(***************************************************************************)
(* get_workflow_status                                                     *)
(***************************************************************************)
\* JSON null
JsonNull == "null"
RunStatusVals == {"queued", "in_progress", "completed", "waiting"}
RunConclusionVals == {"success", "failure", JsonNull}
\* the objects with any subset of the keys status and conclusion
WorkflowBodies ==
    {EmptyDict}
        \cup {[status |-> st] : st \in RunStatusVals}
        \cup {[conclusion |-> c] : c \in RunConclusionVals}
        \cup {[status |-> st, conclusion |-> c] : st \in RunStatusVals, c \in RunConclusionVals}

get_workflow_status_ret(req) ==
    IF req.status # 200 THEN PyInt(-1)
    ELSE IF Get(req.body, "status", "queued") \in {"queued", "in_progress"} THEN PyInt(0)
    ELSE IF Get(req.body, "conclusion", "failure") = "success" THEN PyInt(1)
    ELSE PyInt(-1)

get_workflow_status ==
    /\ Ready
    /\ \E repo_name \in Repos, workflow_id \in RunIdArgs, req \in Responses(200, WorkflowBodies) :
          Finish("get_workflow_status", [repo_name |-> repo_name, workflow_id |-> workflow_id],
                 <<call_get(<<"/repos/", repo_name, "/actions/runs/", workflow_id>>, None)>>,
                 <<req>>, get_workflow_status_ret(req), NoError)
    /\ UNCHANGED <<self, fs>>

(***************************************************************************)
(* check_user                                                              *)
(***************************************************************************)
RECURSIVE Split(_, _)
\* str.split(sep) on a non-empty text
Split(s, sep) ==
    IF \A i \in 1..Len(s) : s[i] # sep THEN <<s>>
    ELSE LET i == CHOOSE k \in 1..Len(s) : s[k] = sep /\ \A j \in 1..(k - 1) : s[j] # sep
         IN  <<SubSeq(s, 1, i - 1)>> \o Split(SubSeq(s, i + 1, Len(s)), sep)

RECURSIVE Strip(_)
\* str.strip(): leading and trailing blanks removed
Strip(s) ==
    IF s = <<>> THEN s
    ELSE IF Head(s) = " " THEN Strip(Tail(s))
    ELSE IF s[Len(s)] = " " THEN Strip(SubSeq(s, 1, Len(s) - 1))
    ELSE s

Scopes(resp_headers) ==
    IF resp_headers # <<>>
    THEN LET parts == Split(resp_headers, ",") IN [i \in 1..Len(parts) |-> Strip(parts[i])]
    ELSE <<>>

check_user_ret(result) ==
    IF result.status = 200
    THEN PyDict([user |-> result.body["login"],
                 scopes |-> Scopes(Get(result.headers, "x-oauth-scopes", <<>>)),
                 name |-> result.body["name"]])
    ELSE None

ScopeHeaders ==
    {EmptyDict, [k \in {"x-oauth-scopes"} |-> <<>>],
     [k \in {"x-oauth-scopes"} |-> <<"repo", ",", " ", "admin:org">>]}

UserResponses ==
    {[status |-> 200, body |-> [login |-> "me", name |-> "Me"], headers |-> h] : h \in ScopeHeaders}
        \cup {[status |-> s, body |-> b, headers |-> EmptyDict] :
                s \in Statuses \ {200}, b \in ErrorBodies}

check_user ==
    /\ Ready
    /\ \E result \in UserResponses :
          Finish("check_user", <<>>, <<call_get(<<"/user">>, None)>>,
                 <<result>>, check_user_ret(result), NoError)
    /\ UNCHANGED <<self, fs>>

(***************************************************************************)
(* download_workflow_logs: the working directory is a map from file names  *)
(* to contents; open(name, "wb+") creates or truncates the file.           *)
(***************************************************************************)
LogBytes == {"PK-new"}

\* f"{workflow_id}.zip"
ZipName(workflow_id) == <<workflow_id, ".zip">>

\* open(name, "wb+"); f.write(content)
WriteFile(dir, name, content) == (name :> content) @@ dir

download_workflow_logs_ret(req) == PyBool(req.status = 200)

\* download_workflow_logs_fs opening the file before it looks at the status
download_workflow_logs_fs_OpensFirst(dir, workflow_id, req) ==
    WriteFile(dir, ZipName(workflow_id), IF req.status # 200 THEN "" ELSE req.body)

download_workflow_logs_fs(dir, workflow_id, req) ==
    IF req.status # 200 THEN dir ELSE WriteFile(dir, ZipName(workflow_id), req.body)

download_workflow_logs ==
    /\ Ready
    /\ \E repo_name \in Repos, workflow_id \in WorkflowIds, req \in Responses(200, LogBytes) :
          /\ Finish("download_workflow_logs",
                    [repo_name |-> repo_name, workflow_id |-> workflow_id],
                    <<call_get(<<"/repos/", repo_name, "/actions/runs/", workflow_id, "/logs">>, None)>>,
                    <<req>>, download_workflow_logs_ret(req), NoError)
          /\ fs' = download_workflow_logs_fs(fs, workflow_id, req)
    /\ UNCHANGED self

(***************************************************************************)
(* check_org_repos: the first request, then one action per turn of the     *)
(* while loop.  The server answers page p with n items, n <= PER_PAGE.     *)
(***************************************************************************)
\* the repositories of page p when the server sends n of them (ids stand for objects)
ServerPage(p, n) == [i \in 1..n |-> (p - 1) * PER_PAGE + i]
PageLens == {0, 30, PER_PAGE - 1, PER_PAGE}

\* answers to the request for page p, failing with one of the statuses in failing
PageResponses(p, failing) ==
    {[status |-> 200, body |-> ServerPage(p, n)] : n \in PageLens}
        \cup {[status |-> s, body |-> ErrorBody] : s \in failing}

\* TypeRaises rejecting only the empty filter
TypeRaises_EmptyOnly(type) == type = ""

\* if type not in [...]: raise ValueError
TypeRaises(type) == type \notin REPO_TYPES

\* MorePages going on after any non-empty page
MorePages_AnyItems(listing) == Len(listing) > 0

\* the while condition: are there more pages
MorePages(listing) == Len(listing) = PER_PAGE

OrgReposRequest(org, get_params) ==
    call_get(<<"/orgs/", org, "/repos">>, PyDict(get_params))

check_org_repos ==
    /\ Ready
    /\ \E org \in Orgs, type \in TypeArgs :
          LET args == [org |-> org, type |-> type]
              get_params == [type |-> type, per_page |-> PER_PAGE, page |-> 1]
          IN  IF TypeRaises(type)
              THEN Finish("check_org_repos", args, <<>>, <<>>, None, "ValueError")
              ELSE \E org_repos \in PageResponses(1, Statuses \ {200}) :
                      IF org_repos.status = 200
                      THEN IF MorePages(org_repos.body)
                           THEN /\ call' = [op |-> "check_org_repos", args |-> args]
                                /\ reqs' = <<OrgReposRequest(org, get_params)>>
                                /\ resps' = <<org_repos>>
                                /\ ret' = None
                                /\ err' = NoError
                                /\ pc' = "check_org_repos_while"
                                /\ locals' = [get_params |-> get_params,
                                              listing |-> org_repos.body,
                                              repos |-> org_repos.body]
                           ELSE Finish("check_org_repos", args,
                                       <<OrgReposRequest(org, get_params)>>, <<org_repos>>,
                                       PyList(org_repos.body), NoError)
                      ELSE Finish("check_org_repos", args,
                                  <<OrgReposRequest(org, get_params)>>, <<org_repos>>,
                                  None, NoError)
    /\ UNCHANGED <<self, fs>>

\* the loop's local variables after one turn that received org_repos
while_body(l, org_repos) ==
    [get_params |-> [l.get_params EXCEPT !.page = @ + 1],
     listing |-> IF org_repos.status = 200 THEN org_repos.body ELSE l.listing,
     repos |-> IF org_repos.status = 200 THEN l.repos \o org_repos.body ELSE l.repos]

check_org_repos_while ==
    /\ pc = "check_org_repos_while"
    /\ MorePages(locals.listing)
    /\ locals.get_params.page < MaxPages
    /\ \E org_repos \in PageResponses(locals.get_params.page + 1, {500}) :
          LET l == while_body(locals, org_repos)
          IN  /\ reqs' = Append(reqs, OrgReposRequest(call.args.org, l.get_params))
              /\ resps' = Append(resps, org_repos)
              /\ locals' = l
              /\ IF MorePages(l.listing)
                 THEN UNCHANGED <<pc, ret>>
                 ELSE pc' = "idle" /\ ret' = PyList(l.repos)
    /\ UNCHANGED <<self, call, err, fs>>

(***************************************************************************)
(* Run logs.  An archive is the list of its entries, each a file name and  *)
(* the bytes of the file; text is a sequence of tokens.                    *)
(***************************************************************************)
\* "needle in text" for a needle that is one token
Contains(text, needle) == \E i \in 1..Len(text) : text[i] = needle

\* bytes.decode()
Decode(data) == data.bytes

\* zipfile.ZipFile(io.BytesIO(log_content)).infolist()
Infolist(log_content) == log_content.zip

\* the end of the longest run of [\w+-] tokens that starts at i (i - 1 if there is none)
WordRunEnd(s, i) ==
    CHOOSE j \in (i - 1)..Len(s) :
        /\ \A k \in i..j : s[k] \in WordToks
        /\ j = Len(s) \/ s[j + 1] \notin WordToks

\* the pattern  <marker>: '([\w+-]+)'  matches at position i
MatchAt(marker, s, i) ==
    /\ i + 1 <= Len(s)
    /\ s[i] = marker
    /\ s[i + 1] = RE_OPEN
    /\ LET j == WordRunEnd(s, i + 2)
       IN  j >= i + 2 /\ j + 1 <= Len(s) /\ s[j + 1] = RE_CLOSE

\* re.search: group(1) of the leftmost match, or None
RE_search(marker, s) ==
    IF \E i \in 1..Len(s) : MatchAt(marker, s, i)
    THEN LET i == CHOOSE k \in 1..Len(s) :
                     MatchAt(marker, s, k) /\ \A m \in 1..(k - 1) : ~MatchAt(marker, s, m)
         IN  PyStr(SubSeq(s, i + 2, WordRunEnd(s, i + 2)))
    ELSE None

RUNNER_RE(content) == RE_search(RUNNER_NAME, content)

MACHINE_RE(content) == RE_search(MACHINE_NAME, content)

\* IsSetupLog looking at the file name only
IsSetupLog_NameOnly(zipinfo) == Contains(zipinfo.filename, SET_UP_JOB)

\* does the entry carry a setup log of a job
IsSetupLog(zipinfo) ==
    /\ Contains(zipinfo.filename, SET_UP_JOB)
    /\ LET content == Decode(zipinfo.data)
       IN  Contains(content, RUNNER_NAME) \/ Contains(content, MACHINE_NAME)

log_package(content, run_info) ==
    PyDict([setup_log |-> content,
            runner_name |-> RUNNER_RE(content),
            machine_name |-> MACHINE_RE(content),
            run_id |-> run_info["id"],
            run_attempt |-> run_info["run_attempt"]])

RECURSIVE ScanEntries(_, _, _)
\* the for loop over infolist(), from entry k on
ScanEntries(infolist, k, run_info) ==
    IF k > Len(infolist) THEN None
    ELSE IF IsSetupLog(infolist[k])
         THEN log_package(Decode(infolist[k].data), run_info)
         ELSE ScanEntries(infolist, k + 1, run_info)

process_run_log(log_content, run_info) == ScanEntries(Infolist(log_content), 1, run_info)

\* setup-log texts
TextPlain == <<"Current runner version: 2.304.0", "\n">>
TextBoth ==
    <<RUNNER_NAME, RE_OPEN, "gato", "-", "1", RE_CLOSE, "\n",
      MACHINE_NAME, RE_OPEN, "host", RE_CLOSE, "\n">>
TextUnquoted ==
    <<RUNNER_NAME, ": ", "gato", "\n", MACHINE_NAME, RE_OPEN, "vm", RE_CLOSE>>
TextSecond ==
    <<RUNNER_NAME, RE_OPEN, RE_CLOSE, "\n", RUNNER_NAME, RE_OPEN, "b", RE_CLOSE, "gato">>

Entry(filename, text) == [filename |-> filename, data |-> [bytes |-> text]]
SetupFile(job) == <<job, "/1_", SET_UP_JOB, ".txt">>
OtherFile(job) == <<job, "/2_Run tests.txt">>

Archives ==
    {<<Entry(OtherFile("build"), TextBoth)>>,
     <<Entry(SetupFile("build"), TextPlain)>>,
     <<Entry(OtherFile("build"), TextPlain), Entry(SetupFile("build"), TextBoth)>>,
     <<Entry(SetupFile("build"), TextPlain), Entry(SetupFile("test"), TextUnquoted)>>,
     <<Entry(SetupFile("build"), TextSecond), Entry(SetupFile("test"), TextBoth)>>}

LogResponses ==
    {[status |-> 200, body |-> [zip |-> a]] : a \in Archives}
        \cup {[status |-> 404, body |-> ErrorBody]}

RunLogRequest(repo_name, run) ==
    call_get(<<"/repos/", repo_name, "/actions/runs/", run["id"],
               "/attempts/", run["run_attempt"], "/logs">>, None)

retrieve_run_logs ==
    /\ Ready
    /\ \E repo_name \in Repos, short_circuit \in BOOLEAN, runs \in Responses(200, RunListings) :
          LET args == [repo_name |-> repo_name, short_circuit |-> short_circuit]
              rq == <<call_get(<<"/repos/", repo_name, "/actions/runs">>, None)>>
          IN  IF runs.status = 200 /\ Len(runs.body["workflow_runs"]) > 0
              THEN /\ call' = [op |-> "retrieve_run_logs", args |-> args]
                   /\ reqs' = rq
                   /\ resps' = <<runs>>
                   /\ ret' = None
                   /\ err' = NoError
                   /\ pc' = "retrieve_run_logs_for"
                   /\ locals' = [runs |-> runs.body["workflow_runs"], i |-> 1,
                                 run_log |-> None, run_logs |-> <<>>]
              ELSE Finish("retrieve_run_logs", args, rq, <<runs>>, PyList(<<>>), NoError)
    /\ UNCHANGED <<self, fs>>

\* the loop's local variables after the turn for run number l.i received run_log
for_body(l, run_log) ==
    LET rec == IF run_log.status = 200 THEN process_run_log(run_log.body, l.runs[l.i])
               ELSE None
    IN  [runs |-> l.runs,
         i |-> l.i + 1,
         run_log |-> rec,
         run_logs |-> IF rec # None THEN Append(l.run_logs, rec) ELSE l.run_logs]

\* ShortCircuits returning at the first record whatever the flag says
ShortCircuits_Always(l, short_circuit) == l.run_log # None

\* ShortCircuits ignoring the flag
ShortCircuits_Never(l, short_circuit) == FALSE

\* the turn just made returns from inside the loop
ShortCircuits(l, short_circuit) == l.run_log # None /\ short_circuit

retrieve_run_logs_for ==
    /\ pc = "retrieve_run_logs_for"
    /\ \E run_log \in LogResponses :
          LET l == for_body(locals, run_log)
          IN  /\ reqs' = Append(reqs, RunLogRequest(call.args.repo_name, locals.runs[locals.i]))
              /\ resps' = Append(resps, run_log)
              /\ locals' = l
              /\ IF ShortCircuits(l, call.args.short_circuit) \/ l.i > Len(l.runs)
                 THEN pc' = "idle" /\ ret' = PyList(l.run_logs)
                 ELSE UNCHANGED <<pc, ret>>
    /\ UNCHANGED <<self, call, err, fs>>

Next ==
    \/ check_org_repos
    \/ check_org_repos_while
    \/ retrieve_run_logs
    \/ retrieve_run_logs_for
    \/ validate_sso
    \/ get_workflow_status
    \/ check_user
    \/ download_workflow_logs
    \/ Api_init
    \/ delete_repository
    \/ fork_repository
    \/ create_fork_pr
    \/ check_organizations
    \/ get_repository
    \/ get_organization_details
    \/ check_org_runners
    \/ get_repo_branch
    \/ get_repo_runners
    \/ parse_workflow_runs
    \/ get_recent_workflow
    \/ delete_workflow_run

Spec == Init /\ [][Next]_vars

(***************************************************************************)
(* Properties.                                                             *)
(***************************************************************************)
IsNone(v) == v = None
IsBool(v, b) == v.kind = "bool" /\ v.val = b
IsInt(v, n) == v.kind = "int" /\ v.val = n
IsList(v, s) == v.kind = "list" /\ v.val = s

\* a proxy address is supplied: the argument is a non-empty string
Supplied(v) == v.kind = "str" /\ v.val # ""

\* C1: constructing with both proxy kinds raises the configuration error and
\* leaves no client; with only an HTTP proxy the proxy map is http://<addr> for
\* both schemes and TLS verification is off; with only a SOCKS proxy it is
\* socks5://<addr> and verification is on; with neither there is no proxy map
\* and verification is on.  In every client, verification is off exactly when
\* an HTTP proxy is configured.
C1_Construction ==
    /\ call.op = "__init__" =>
          LET a == call.args
              h == Supplied(a.http_proxy)
              k == Supplied(a.socks_proxy)
          IN  /\ (h /\ k) => (IsNone(self) /\ err = "ValueError")
              /\ ~(h /\ k) => (~IsNone(self) /\ err = NoError)
              /\ (h /\ ~k) =>
                    /\ self.proxies = [http |-> <<"http://", a.http_proxy.val>>,
                                       https |-> <<"http://", a.http_proxy.val>>]
                    /\ self.verify_ssl = FALSE
              /\ (~h /\ k) =>
                    /\ self.proxies = [http |-> <<"socks5://", a.socks_proxy.val>>,
                                       https |-> <<"socks5://", a.socks_proxy.val>>]
                    /\ self.verify_ssl = TRUE
              /\ (~h /\ ~k) => (IsNone(self.proxies) /\ self.verify_ssl = TRUE)
    /\ ~IsNone(self) =>
          (self.verify_ssl = FALSE
              <=> (~IsNone(self.proxies) /\ self.proxies.https[1] = "http://"))

C1_Witness ==
    /\ call.op = "__init__"
    /\ Supplied(call.args.http_proxy)
    /\ ~Supplied(call.args.socks_proxy)
    /\ ~IsNone(self)
    /\ self.verify_ssl = FALSE

RECURSIVE Flatten(_)
\* the concatenation of a sequence of pages
Flatten(pages) == IF pages = <<>> THEN <<>> ELSE Head(pages) \o Flatten(Tail(pages))

\* C2: while every page request of check_org_repos returns 200, the pages
\* requested are 1, 2, 3, ... with per_page=100, every page before the last one
\* requested carried exactly 100 items, the call goes on to the next page after
\* a page of exactly 100 items, and after the first page with fewer it has
\* returned the concatenation of the fetched pages in page order.
C2_Pagination ==
    (/\ call.op = "check_org_repos"
     /\ err = NoError
     /\ \A i \in 1..Len(resps) : resps[i].status = 200) =>
        /\ Len(reqs) = Len(resps)
        /\ Len(reqs) >= 1
        /\ \A i \in 1..Len(reqs) :
              /\ reqs[i].verb = "GET"
              /\ reqs[i].params.val.page = i
              /\ reqs[i].params.val.per_page = 100
        /\ \A i \in 1..(Len(resps) - 1) : Len(resps[i].body) = 100
        /\ IF Len(resps[Len(resps)].body) = 100
           THEN /\ pc = "check_org_repos_while"
                /\ Len(reqs) < MaxPages => ENABLED check_org_repos_while
           ELSE /\ pc = "idle"
                /\ IsList(ret, Flatten([i \in 1..Len(resps) |-> resps[i].body]))

\* pages of 100, 100 and 30 items: 230 items, three requests
C2_Witness ==
    /\ call.op = "check_org_repos"
    /\ pc = "idle"
    /\ Len(reqs) = 3
    /\ \A i \in 1..3 : resps[i].status = 200
    /\ Len(resps[1].body) = 100 /\ Len(resps[2].body) = 100 /\ Len(resps[3].body) = 30
    /\ ret.kind = "list" /\ Len(ret.val) = 230

\* the archive has an entry named "...Set up job..." whose text has a marker
Qualifies(entry) ==
    /\ \E i \in 1..Len(entry.filename) : entry.filename[i] = "Set up job"
    /\ \E i \in 1..Len(entry.data.bytes) :
          entry.data.bytes[i] \in {"Runner name", "Machine name"}

HasSetupLog(archive) == \E k \in 1..Len(archive) : Qualifies(archive[k])

\* the URL of the log request for a run
RunLogUrl(repo_name, run) ==
    <<"https://api.github.com", "/repos/", repo_name, "/actions/runs/", run.id,
      "/attempts/", run.run_attempt, "/logs">>

\* C3: with short_circuit the runs of the listing are processed in order; the
\* first run whose log fetch is 200 and whose archive yields a record ends the
\* call, which then returns a list of that one record, and no log request is
\* issued for a later run; when no run yields a record the call returns the
\* empty list after one log request per run.
C3_ShortCircuit ==
    (/\ call.op = "retrieve_run_logs"
     /\ call.args.short_circuit
     /\ resps[1].status = 200) =>
        LET runs == resps[1].body.workflow_runs
            n == Len(resps) - 1
            Yields(k) == resps[k + 1].status = 200 /\ HasSetupLog(resps[k + 1].body.zip)
        IN  /\ Len(reqs) = Len(resps)
            /\ n <= Len(runs)
            /\ \A k \in 1..n : reqs[k + 1].url = RunLogUrl(call.args.repo_name, runs[k])
            /\ \A k \in 1..n : Yields(k) => k = n
            /\ (n >= 1 /\ Yields(n)) =>
                  /\ pc = "idle"
                  /\ ret.kind = "list"
                  /\ Len(ret.val) = 1
                  /\ ret.val[1].val.run_id = runs[n].id
                  /\ ret.val[1].val.run_attempt = runs[n].run_attempt
            /\ (pc = "idle" /\ ~(n >= 1 /\ Yields(n))) =>
                  (IsList(ret, <<>>) /\ n = Len(runs))
            /\ pc # "idle" => n < Len(runs)

\* three runs, only the second has a valid log: one record, no request for the third
C3_Witness ==
    /\ call.op = "retrieve_run_logs"
    /\ call.args.short_circuit
    /\ pc = "idle"
    /\ resps[1].status = 200
    /\ Len(resps[1].body.workflow_runs) = 3
    /\ Len(reqs) = 3
    /\ ret.kind = "list" /\ Len(ret.val) = 1
    /\ ret.val[1].val.run_id = resps[1].body.workflow_runs[2].id

\* C4: get_workflow_status returns -1 for a non-200 response; for a 200 body
\* it returns 0 if status is queued, in_progress or absent, 1 exactly when
\* status is completed and conclusion is success, and -1 otherwise.
C4_WorkflowStatus ==
    call.op = "get_workflow_status" =>
        LET req == resps[1]
            hasStatus == "status" \in DOMAIN req.body
            hasConclusion == "conclusion" \in DOMAIN req.body
            pending == ~hasStatus \/ req.body.status \in {"queued", "in_progress"}
            succeeded == /\ hasStatus /\ req.body.status = "completed"
                         /\ hasConclusion /\ req.body.conclusion = "success"
        IN  IF req.status # 200 THEN IsInt(ret, -1)
            ELSE IF pending THEN IsInt(ret, 0)
            ELSE IF succeeded THEN IsInt(ret, 1)
            ELSE IsInt(ret, -1)

\* C5: a download step whose response is 200 returns true and leaves
\* <workflow_id>.zip holding exactly the response body; a download step whose
\* response is anything else returns false and leaves every file as it was.
C5_Download ==
    [][call'.op = "download_workflow_logs" =>
          LET req == resps'[1]
              name == <<call'.args.workflow_id, ".zip">>
          IN  IF req.status = 200
              THEN /\ IsBool(ret', TRUE)
                   /\ name \in DOMAIN fs'
                   /\ fs'[name] = req.body
              ELSE /\ IsBool(ret', FALSE)
                   /\ fs' = fs]_vars

\* the archive of run 11 has replaced the older file of that name
C5_Witness ==
    /\ call.op = "download_workflow_logs"
    /\ call.args.workflow_id = 11
    /\ resps[1].status = 200
    /\ IsBool(ret, TRUE)
    /\ fs[<<11, ".zip">>] = resps[1].body
    /\ resps[1].body # "PK-old"

\* the pattern  <marker>: '<name>'  matches text at i with the name ending at j
CapturedAt(marker, text, i, j) ==
    /\ text[i] = marker
    /\ i + 1 <= Len(text) /\ text[i + 1] = ": '"
    /\ j >= i + 2 /\ j + 1 <= Len(text)
    /\ \A k \in (i + 2)..j : text[k] \in WordToks
    /\ text[j + 1] = "'"

\* the name of the leftmost match of the pattern, or absent
Captured(marker, text) ==
    LET hits == {i \in 1..Len(text) : \E j \in 1..Len(text) : CapturedAt(marker, text, i, j)}
    IN  IF hits = {} THEN None
        ELSE LET i == CHOOSE m \in hits : \A o \in hits : m <= o
                 j == CHOOSE m \in 1..Len(text) : CapturedAt(marker, text, i, m)
             IN  PyStr(SubSeq(text, i + 2, j))

\* C6: processing the archive of a run yields a record exactly when some entry
\* is named "...Set up job..." and its text contains "Runner name" or "Machine
\* name"; the record is built from the first such entry, with that entry's full
\* text, the run's id and run_attempt, and the names the two patterns capture
\* (absent where a pattern does not match).
C6_ProcessRunLog ==
    (/\ call.op = "retrieve_run_logs"
     /\ Len(resps) >= 2
     /\ resps[Len(resps)].status = 200) =>
        LET archive == resps[Len(resps)].body.zip
            run == resps[1].body.workflow_runs[Len(resps) - 1]
            hits == {k \in 1..Len(archive) : Qualifies(archive[k])}
        IN  /\ IsNone(locals.run_log) <=> hits = {}
            /\ hits # {} =>
                  LET first == CHOOSE k \in hits : \A o \in hits : k <= o
                      text == archive[first].data.bytes
                      rec == locals.run_log.val
                  IN  /\ locals.run_log.kind = "dict"
                      /\ DOMAIN rec = {"setup_log", "runner_name", "machine_name",
                                       "run_id", "run_attempt"}
                      /\ rec.setup_log = text
                      /\ rec.run_id = run.id
                      /\ rec.run_attempt = run.run_attempt
                      /\ rec.runner_name = Captured("Runner name", text)
                      /\ rec.machine_name = Captured("Machine name", text)

\* a record from the second entry named "Set up job" (the first has no marker),
\* with a machine name and no runner name
C6_Witness ==
    /\ call.op = "retrieve_run_logs"
    /\ Len(resps) >= 2
    /\ resps[Len(resps)].status = 200
    /\ Len(resps[Len(resps)].body.zip) = 2
    /\ ~Qualifies(resps[Len(resps)].body.zip[1])
    /\ locals.run_log.kind = "dict"
    /\ IsNone(locals.run_log.val.runner_name)
    /\ locals.run_log.val.machine_name = PyStr(<<"vm">>)

\* the success status of each operation's (first) request
SuccessStatus(op) ==
    CASE op = "delete_repository" -> 204
      [] op = "delete_workflow_run" -> 204
      [] op = "fork_repository" -> 202
      [] op = "create_fork_pr" -> 201
      [] OTHER -> 200

\* the failure sentinel tabulated for each operation
Sentinel(op, status) ==
    CASE op \in {"delete_repository", "fork_repository", "validate_sso",
                 "delete_workflow_run", "download_workflow_logs"} -> PyBool(FALSE)
      [] op = "check_organizations" /\ status = 403 -> PyList(<<>>)
      [] op = "retrieve_run_logs" -> PyList(<<>>)
      [] op = "get_repo_branch" -> IF status = 404 THEN PyInt(0) ELSE PyInt(-1)
      [] op \in {"get_recent_workflow", "get_workflow_status"} -> PyInt(-1)
      [] OTHER -> None

\* C7: an operation whose request gets a status other than its success status
\* returns the failure sentinel tabulated for it and raises nothing; the only
\* errors ever raised are the two configuration errors.
C7_SentinelsNoRaise ==
    /\ err \in {NoError, "ValueError"}
    /\ err = "ValueError" => call.op \in {"__init__", "check_org_repos"}
    /\ (/\ pc = "idle"
        /\ Len(resps) >= 1
        /\ resps[1].status # SuccessStatus(call.op)) =>
          (err = NoError /\ ret = Sentinel(call.op, resps[1].status))
    /\ (/\ call.op = "validate_sso"
        /\ Len(resps) = 2
        /\ resps[2].status = 403) =>
          (err = NoError /\ IsBool(ret, FALSE))

\* C8: check_org_repos with a type filter outside the seven recognized ones
\* raises the validation error without having issued any request.
C8_FilterBeforeNetwork ==
    (/\ call.op = "check_org_repos"
     /\ call.args.type \notin {"all", "public", "private", "forks", "sources",
                               "member", "internal"}) =>
        /\ err = "ValueError"
        /\ reqs = <<>>
        /\ resps = <<>>
        /\ pc = "idle"
        /\ IsNone(ret)

C8_Witness ==
    /\ call.op = "check_org_repos"
    /\ call.args.type = "bogus"
    /\ err = "ValueError"
    /\ reqs = <<>>

\* C9: check_org_repos goes on only after a page of exactly 100 items: after a
\* non-200 response to a page after the first it requests no further page,
\* after a page of fewer than 100 items (or a failed first page) it has
\* returned, and no page is requested twice.
C9_StopsAfterFailedPage ==
    call.op = "check_org_repos" =>
        /\ \A i \in 1..Len(resps) :
              IF resps[i].status # 200
              THEN Len(reqs) = i /\ (i = 1 => pc = "idle")
              ELSE Len(resps[i].body) < 100 => (Len(reqs) = i /\ pc = "idle")
        /\ \A i \in 1..Len(reqs) : reqs[i].params.val.page = i

\* C10: validate_sso issues the listing request first; a non-200 listing makes
\* it return false without the repository lookup; otherwise it issues exactly
\* one lookup and returns false for 403 and true for any other status.
C10_ValidateSso ==
    (call.op = "validate_sso" /\ pc = "idle") =>
        /\ Len(reqs) >= 1
        /\ reqs[1].url = <<"https://api.github.com", "/orgs/", call.args.org, "/repos">>
        /\ IF resps[1].status # 200
           THEN Len(reqs) = 1 /\ IsBool(ret, FALSE)
           ELSE /\ Len(reqs) = 2
                /\ reqs[2].url = <<"https://api.github.com", "/repos/", call.args.repository>>
                /\ IsBool(ret, resps[2].status # 403)

\* the record a run's archive yields: built from its first qualifying entry
ExpectedRecord(archive, run) ==
    LET hits == {k \in 1..Len(archive) : Qualifies(archive[k])}
        first == CHOOSE k \in hits : \A o \in hits : k <= o
        text == archive[first].data.bytes
    IN  PyDict([setup_log |-> text,
                runner_name |-> Captured("Runner name", text),
                machine_name |-> Captured("Machine name", text),
                run_id |-> run.id,
                run_attempt |-> run.run_attempt])

RECURSIVE ExpectedLogs(_, _, _)
\* the records of the first n runs whose log response is 200 and whose archive
\* yields a record, in listing order (logs[k] is the log response of run k)
ExpectedLogs(runs, logs, n) ==
    IF n = 0 THEN <<>>
    ELSE LET rest == ExpectedLogs(runs, logs, n - 1)
         IN  IF logs[n].status = 200 /\ HasSetupLog(logs[n].body.zip)
             THEN Append(rest, ExpectedRecord(logs[n].body.zip, runs[n]))
             ELSE rest

\* C11: without short_circuit, a 200 run listing is followed by exactly one log
\* request per listed run (its id and run_attempt), in listing order, and the
\* call returns exactly the records of the runs whose log fetch was 200 and
\* whose archive yielded a record, in listing order; a failed fetch or an
\* archive without a record adds nothing and does not end the iteration.  A
\* non-200 listing gives the empty list and no log request.
C11_AllRuns ==
    (call.op = "retrieve_run_logs" /\ ~call.args.short_circuit) =>
        IF resps[1].status # 200
        THEN pc = "idle" /\ IsList(ret, <<>>) /\ Len(reqs) = 1
        ELSE LET runs == resps[1].body.workflow_runs
                 n == Len(resps) - 1
                 logs == [k \in 1..n |-> resps[k + 1]]
             IN  /\ Len(reqs) = Len(resps)
                 /\ n <= Len(runs)
                 /\ \A k \in 1..n :
                       /\ reqs[k + 1].verb = "GET"
                       /\ reqs[k + 1].url = RunLogUrl(call.args.repo_name, runs[k])
                 /\ pc = "idle" <=> n = Len(runs)
                 /\ pc = "idle" => IsList(ret, ExpectedLogs(runs, logs, n))
                 /\ pc # "idle" => locals.run_logs = ExpectedLogs(runs, logs, n)

\* three runs: a record, a failed fetch, a record; two records after three log requests
C11_Witness ==
    /\ call.op = "retrieve_run_logs"
    /\ ~call.args.short_circuit
    /\ pc = "idle"
    /\ Len(reqs) = 4
    /\ resps[1].status = 200
    /\ resps[2].status = 200 /\ HasSetupLog(resps[2].body.zip)
    /\ resps[3].status # 200
    /\ resps[4].status = 200 /\ HasSetupLog(resps[4].body.zip)
    /\ ret.kind = "list" /\ Len(ret.val) = 2
    /\ ret.val[2].val.run_id = resps[1].body.workflow_runs[3].id

\* the request is sent under the base URL with the client's configuration
CarriesConfig(request, client) ==
    /\ request.url[1] = "https://api.github.com"
    /\ Len(request.url) >= 2
    /\ request.headers = client.headers
    /\ request.proxies = client.proxies
    /\ request.verify = client.verify_ssl

\* C12: a step of any operation other than the constructor leaves the client's
\* header map, proxy map and TLS-verification flag as they were, the
\* constructor sets the three headers from its arguments, and every request
\* issued goes to a URL under https://api.github.com carrying exactly that
\* header map, proxy map and flag.
C12_ConfigFixed ==
    [][/\ call'.op # "__init__" => self' = self
       /\ (call'.op = "__init__" /\ ~IsNone(self')) =>
             /\ DOMAIN self'.headers = {"Accept", "Authorization", "X-GitHub-Api-Version"}
             /\ self'.headers["Accept"] = "application/vnd.github+json"
             /\ self'.headers["Authorization"] = <<"Bearer ", call'.args.pat>>
             /\ self'.headers["X-GitHub-Api-Version"] = call'.args.version
       /\ \A i \in 1..Len(reqs') : CarriesConfig(reqs'[i], self')]_vars

\* a POST sent through the HTTP proxy of the client, with verification off
C12_Witness ==
    /\ ~IsNone(self)
    /\ self.verify_ssl = FALSE
    /\ ~IsNone(self.proxies)
    /\ Len(reqs) = 1
    /\ reqs[1].verb = "POST"
    /\ CarriesConfig(reqs[1], self)
====
